---------------------------- MODULE Spec2Model ----------------------------
(***************************************************************************)
(* A model of modules/polygon/src/earcut.ts: the ear-clipping polygon      *)
(* triangulator of math.gl (adapted from mapbox/earcut).                   *)
(*                                                                         *)
(* The node graph is an arena: `nodes` is a sequence of node records and a *)
(* node reference is an index into it (Null = 0).  A node that removeNode  *)
(* has unlinked stays in the arena with the prev/next it had, as the       *)
(* JavaScript object does.                                                 *)
(*                                                                         *)
(* Coordinates are integers.  The three places where the code divides      *)
(* (findHoleBridge's ray crossing and tangent, middleInside's crossing)    *)
(* are computed exactly, as fractions compared by cross-multiplication.    *)
(*                                                                         *)
(* Inputs have positions.length <= 80 * dim, so invSize stays undefined    *)
(* and earcutLinked takes the isEar branch (no z-order index).  Every hole *)
(* span is non-empty.                                                      *)
(***************************************************************************)
EXTENDS Integers, Sequences, FiniteSets, TLC

Null == 0

\* An optional value (a JavaScript value that may be undefined): <<>> or <<v>>.
Undefined == <<>>

Abs(v) == IF v < 0 THEN -v ELSE v
Max(u, v) == IF u > v THEN u ELSE v
Min(u, v) == IF u < v THEN u ELSE v

-----------------------------------------------------------------------------
(* Node and the list primitives *)

\* function Node(i, x, y): z, prevZ, nextZ belong to the z-order index
Node(i, x, y) ==
  [i |-> i, x |-> x, y |-> y, prev |-> Null, next |-> Null, steiner |-> FALSE]

\* insertNode(i, x, y, last): the arena with the new node, and the new node
insertNode(N, i, x, y, last) ==
  LET p == Len(N) + 1
      N1 == Append(N, Node(i, x, y))
  IN IF last = Null
     THEN [nodes |-> [N1 EXCEPT ![p].prev = p, ![p].next = p], node |-> p]
     ELSE LET ln == N[last].next
          IN [nodes |-> [N1 EXCEPT ![p].next = ln, ![p].prev = last,
                                   ![ln].prev = p, ![last].next = p],
              node |-> p]

\* removeNode(p): its neighbours are linked to each other, p keeps its links
removeNode(N, p) ==
  [N EXCEPT ![N[p].next].prev = N[p].prev, ![N[p].prev].next = N[p].next]

\* a faulty splitPolygon: a2 copies the point of a under the index of b
splitPolygonMixed(N, a, b) ==
  LET a2 == Len(N) + 1
      b2 == Len(N) + 2
      an == N[a].next
      bp == N[b].prev
      N1 == N \o << Node(N[b].i, N[a].x, N[a].y), Node(N[b].i, N[b].x, N[b].y) >>
  IN [nodes |-> [N1 EXCEPT ![a].next = b, ![b].prev = a,
                           ![a2].next = an, ![an].prev = a2,
                           ![b2].next = a2, ![a2].prev = b2,
                           ![bp].next = b2, ![b2].prev = bp],
      node |-> b2]

\* splitPolygon(a, b): the arena with a2 and b2 added, and b2
splitPolygon(N, a, b) ==
  LET a2 == Len(N) + 1
      b2 == Len(N) + 2
      an == N[a].next
      bp == N[b].prev
      N1 == N \o << Node(N[a].i, N[a].x, N[a].y), Node(N[b].i, N[b].x, N[b].y) >>
  IN [nodes |-> [N1 EXCEPT ![a].next = b, ![b].prev = a,
                           ![a2].next = an, ![an].prev = a2,
                           ![b2].next = a2, ![a2].prev = b2,
                           ![bp].next = b2, ![b2].prev = bp],
      node |-> b2]

-----------------------------------------------------------------------------
(* Geometric predicates *)

\* area(p, q, r): signed area of a triangle (twice it)
area(N, p, q, r) ==
  (N[q].y - N[p].y) * (N[r].x - N[q].x) - (N[q].x - N[p].x) * (N[r].y - N[q].y)

equals(N, p1, p2) == N[p1].x = N[p2].x /\ N[p1].y = N[p2].y

sign(num) == IF num > 0 THEN 1 ELSE IF num < 0 THEN -1 ELSE 0

\* a faulty pointInTriangle: a point on an edge is not in the triangle
pointInTriangleOpen(ax, ay, bx, by, cx, cy, px, py) ==
  /\ (cx - px) * (ay - py) - (ax - px) * (cy - py) > 0
  /\ (ax - px) * (by - py) - (bx - px) * (ay - py) > 0
  /\ (bx - px) * (cy - py) - (cx - px) * (by - py) > 0

\* pointInTriangle(ax, ay, bx, by, cx, cy, px, py)
pointInTriangle(ax, ay, bx, by, cx, cy, px, py) ==
  /\ (cx - px) * (ay - py) - (ax - px) * (cy - py) >= 0
  /\ (ax - px) * (by - py) - (bx - px) * (ay - py) >= 0
  /\ (bx - px) * (cy - py) - (cx - px) * (by - py) >= 0

\* onSegment(p, q, r): for collinear p, q, r, whether q lies on segment pr
onSegment(N, p, q, r) ==
  /\ N[q].x <= Max(N[p].x, N[r].x)
  /\ N[q].x >= Min(N[p].x, N[r].x)
  /\ N[q].y <= Max(N[p].y, N[r].y)
  /\ N[q].y >= Min(N[p].y, N[r].y)

intersects(N, p1, q1, p2, q2) ==
  LET o1 == sign(area(N, p1, q1, p2))
      o2 == sign(area(N, p1, q1, q2))
      o3 == sign(area(N, p2, q2, p1))
      o4 == sign(area(N, p2, q2, q1))
  IN \/ (o1 # o2 /\ o3 # o4)
     \/ (o1 = 0 /\ onSegment(N, p1, p2, q1))
     \/ (o2 = 0 /\ onSegment(N, p1, q2, q1))
     \/ (o3 = 0 /\ onSegment(N, p2, p1, q2))
     \/ (o4 = 0 /\ onSegment(N, p2, q1, q2))

locallyInside(N, a, b) ==
  IF area(N, N[a].prev, a, N[a].next) < 0
  THEN area(N, a, b, N[a].next) >= 0 /\ area(N, a, N[a].prev, b) >= 0
  ELSE area(N, a, b, N[a].prev) < 0 \/ area(N, a, N[a].next, b) < 0

\* intersectsPolygon(a, b): the do-while over the ring of a
RECURSIVE intersectsPolygonFrom(_, _, _, _)
intersectsPolygonFrom(N, a, b, p) ==
  LET pn == N[p].next
  IN IF /\ N[p].i # N[a].i /\ N[pn].i # N[a].i
        /\ N[p].i # N[b].i /\ N[pn].i # N[b].i
        /\ intersects(N, p, pn, a, b)
     THEN TRUE
     ELSE IF pn # a THEN intersectsPolygonFrom(N, a, b, pn) ELSE FALSE

intersectsPolygon(N, a, b) == intersectsPolygonFrom(N, a, b, a)

\* middleInside(a, b): px = (a.x + b.x) / 2 and py = (a.y + b.y) / 2 are kept
\* doubled (px2, py2); with dy = p.next.y - p.y # 0 the test
\*   px < (p.next.x - p.x) * (py - p.y) / dy + p.x
\* is multiplied by 2 * dy, turning with the sign of dy.
middleCrosses(N, p, px2, py2) ==
  LET pn == N[p].next
      dy == N[pn].y - N[p].y
      lhs == (px2 - 2 * N[p].x) * dy
      rhs == (N[pn].x - N[p].x) * (py2 - 2 * N[p].y)
  IN /\ (2 * N[p].y > py2) # (2 * N[pn].y > py2)
     /\ dy # 0
     /\ IF dy > 0 THEN lhs < rhs ELSE lhs > rhs

RECURSIVE middleInsideFrom(_, _, _, _, _, _)
middleInsideFrom(N, a, p, px2, py2, inside) ==
  LET ins == IF middleCrosses(N, p, px2, py2) THEN ~inside ELSE inside
      pn == N[p].next
  IN IF pn # a THEN middleInsideFrom(N, a, pn, px2, py2, ins) ELSE ins

middleInside(N, a, b) ==
  middleInsideFrom(N, a, a, N[a].x + N[b].x, N[a].y + N[b].y, FALSE)

isValidDiagonal(N, a, b) ==
  /\ N[N[a].next].i # N[b].i
  /\ N[N[a].prev].i # N[b].i
  /\ ~intersectsPolygon(N, a, b)
  /\ \/ /\ locallyInside(N, a, b)
        /\ locallyInside(N, b, a)
        /\ middleInside(N, a, b)
        /\ (area(N, N[a].prev, a, N[b].prev) # 0 \/ area(N, a, N[b].prev, b) # 0)
     \/ /\ equals(N, a, b)
        /\ area(N, N[a].prev, a, N[a].next) > 0
        /\ area(N, N[b].prev, b, N[b].next) > 0

\* sectorContainsSector(m, p)
sectorContainsSector(N, m, p) ==
  area(N, N[m].prev, m, N[p].prev) < 0 /\ area(N, N[p].next, m, N[m].next) < 0

-----------------------------------------------------------------------------
(* Ring Builder *)

\* data[i] of the flat JavaScript array (offsets count from 0)
At(data, i) == data[i + 1]

\* getPolygonSignedArea(points, {start, end, size}) of ./polygon-utils, whose
\* sign is opposite to earcut's own signedArea (earcut.ts lines 93-95):
\* negative for a ring that turns left (counter-clockwise, y up).  The value
\* is kept doubled, an integer; the code reads its sign only.
RECURSIVE signedAreaFrom(_, _, _, _, _)
signedAreaFrom(data, i, j, end, dim) ==
  IF i >= end THEN 0
  ELSE (At(data, i) - At(data, j)) * (At(data, i + 1) + At(data, j + 1))
       + signedAreaFrom(data, i + dim, i, end, dim)

getPolygonSignedArea(data, start, end, dim) ==
  signedAreaFrom(data, start, end - dim, end, dim)

RECURSIVE insertForward(_, _, _, _, _, _)
insertForward(N, data, i, end, dim, last) ==
  IF i >= end THEN [nodes |-> N, node |-> last]
  ELSE LET r == insertNode(N, i, At(data, i), At(data, i + 1), last)
       IN insertForward(r.nodes, data, i + dim, end, dim, r.node)

RECURSIVE insertBackward(_, _, _, _, _, _)
insertBackward(N, data, i, start, dim, last) ==
  IF i < start THEN [nodes |-> N, node |-> last]
  ELSE LET r == insertNode(N, i, At(data, i), At(data, i + 1), last)
       IN insertBackward(r.nodes, data, i - dim, start, dim, r.node)

\* a faulty closing: the duplicate of the first point stays in the ring
closeRingKept(r) == r

\* the closing duplicate dropped, lines 102-105
closeRing(r) ==
  IF r.node # Null /\ equals(r.nodes, r.node, r.nodes[r.node].next)
  THEN [nodes |-> removeNode(r.nodes, r.node), node |-> r.nodes[r.node].next]
  ELSE r

\* a faulty linkedList: the ring is built in the order of the input
linkedListForward(N, data, start, end, dim, clockwise, areaArg) ==
  closeRing(insertForward(N, data, start, end, dim, Null))

\* a faulty linkedList: the backward loop starts one vertex late
linkedListShort(N, data, start, end, dim, clockwise, areaArg) ==
  LET a == IF areaArg = Undefined
           THEN getPolygonSignedArea(data, start, end, dim)
           ELSE areaArg[1]
  IN closeRing(IF clockwise = (a < 0)
               THEN insertForward(N, data, start, end, dim, Null)
               ELSE insertBackward(N, data, end - dim - dim, start, dim, Null))

\* a faulty linkedList: a supplied area is read with the opposite sign
linkedListSign(N, data, start, end, dim, clockwise, areaArg) ==
  LET a == IF areaArg = Undefined
           THEN getPolygonSignedArea(data, start, end, dim)
           ELSE 0 - areaArg[1]
  IN closeRing(IF clockwise = (a < 0)
               THEN insertForward(N, data, start, end, dim, Null)
               ELSE insertBackward(N, data, end - dim, start, dim, Null))

\* linkedList(data, start, end, dim, clockwise, area); areaArg is optional
linkedList(N, data, start, end, dim, clockwise, areaArg) ==
  LET a == IF areaArg = Undefined
           THEN getPolygonSignedArea(data, start, end, dim)
           ELSE areaArg[1]
      r == IF clockwise = (a < 0)
           THEN insertForward(N, data, start, end, dim, Null)
           ELSE insertBackward(N, data, end - dim, start, dim, Null)
  IN closeRing(r)

\* filterPoints(start, end): the do-while, entered at p
RECURSIVE filterLoop(_, _, _)
filterLoop(N, p, end) ==
  IF ~N[p].steiner
     /\ (equals(N, p, N[p].next) \/ area(N, N[p].prev, p, N[p].next) = 0)
  THEN LET N1 == removeNode(N, p)
           q == N1[p].prev
       IN IF q = N1[q].next
          THEN [nodes |-> N1, node |-> q]
          ELSE filterLoop(N1, q, q)
  ELSE LET q == N[p].next
       IN IF q # end THEN filterLoop(N, q, end) ELSE [nodes |-> N, node |-> end]

filterPoints(N, start, end) ==
  IF start = Null THEN [nodes |-> N, node |-> start]
  ELSE filterLoop(N, start, IF end = Null THEN start ELSE end)

-----------------------------------------------------------------------------
(* Ear-Clipping Engine: the tests and the two repair passes *)

RECURSIVE isEarFrom(_, _, _)
isEarFrom(N, ear, p) ==
  LET a == N[ear].prev
      c == N[ear].next
  IN IF p = a THEN TRUE
     ELSE IF /\ pointInTriangle(N[a].x, N[a].y, N[ear].x, N[ear].y,
                                N[c].x, N[c].y, N[p].x, N[p].y)
             /\ area(N, N[p].prev, p, N[p].next) >= 0
          THEN FALSE
          ELSE isEarFrom(N, ear, N[p].next)

\* isEar(ear)
isEar(N, ear) ==
  IF area(N, N[ear].prev, ear, N[ear].next) >= 0 THEN FALSE
  ELSE isEarFrom(N, ear, N[N[ear].next].next)

\* cureLocalIntersections(start, triangles, dim): the do-while, entered at p
RECURSIVE cureLoop(_, _, _, _, _)
cureLoop(N, T, p, start, dim) ==
  LET a == N[p].prev
      pn == N[p].next
      b == N[pn].next
  IN IF /\ ~equals(N, a, b)
        /\ intersects(N, a, p, pn, b)
        /\ locallyInside(N, a, b)
        /\ locallyInside(N, b, a)
     THEN LET T1 == T \o << N[a].i \div dim, N[p].i \div dim, N[b].i \div dim >>
              N1 == removeNode(N, p)
              N2 == removeNode(N1, N1[p].next)
              q == N2[b].next
          IN IF q # b THEN cureLoop(N2, T1, q, b, dim)
             ELSE [nodes |-> N2, triangles |-> T1, node |-> q]
     ELSE IF pn # start THEN cureLoop(N, T, pn, start, dim)
          ELSE [nodes |-> N, triangles |-> T, node |-> pn]

cureLocalIntersections(N, T, start, dim) ==
  LET r == cureLoop(N, T, start, start, dim)
      f == filterPoints(r.nodes, r.node, Null)
  IN [nodes |-> f.nodes, triangles |-> r.triangles, node |-> f.node]

\* splitEarcut's search: the first (a, b) with a.i # b.i and a valid
\* diagonal, in the order of the two nested loops; <<>> when there is none
RECURSIVE findDiagonalFrom(_, _, _, _)
findDiagonalFrom(N, start, a, b) ==
  IF b # N[a].prev
  THEN IF N[a].i # N[b].i /\ isValidDiagonal(N, a, b)
       THEN << a, b >>
       ELSE findDiagonalFrom(N, start, a, N[b].next)
  ELSE LET an == N[a].next
       IN IF an # start THEN findDiagonalFrom(N, start, an, N[N[an].next].next)
          ELSE << >>

findDiagonal(N, start) == findDiagonalFrom(N, start, start, N[N[start].next].next)

-----------------------------------------------------------------------------
(* Hole Merger *)

\* getLeftmost(start)
RECURSIVE getLeftmostFrom(_, _, _, _)
getLeftmostFrom(N, start, p, leftmost) ==
  LET l == IF \/ N[p].x < N[leftmost].x
              \/ (N[p].x = N[leftmost].x /\ N[p].y < N[leftmost].y)
           THEN p ELSE leftmost
      pn == N[p].next
  IN IF pn # start THEN getLeftmostFrom(N, start, pn, l) ELSE l

getLeftmost(N, start) == getLeftmostFrom(N, start, start, start)

\* queue.sort(compareX): ascending x, equal x keeping their order
RECURSIVE sortInsert(_, _, _)
sortInsert(N, sorted, h) ==
  IF sorted = << >> THEN << h >>
  ELSE IF N[h].x < N[Head(sorted)].x THEN << h >> \o sorted
       ELSE << Head(sorted) >> \o sortInsert(N, Tail(sorted), h)

RECURSIVE sortByX(_, _)
sortByX(N, queue) ==
  IF queue = << >> THEN << >>
  ELSE sortInsert(N, sortByX(N, SubSeq(queue, 1, Len(queue) - 1)), queue[Len(queue)])

\* A fraction n / d with d > 0, or minus infinity (qx before any crossing)
MinusInfinity == [inf |-> TRUE, n |-> 0, d |-> 1]
Frac(n, d) == [inf |-> FALSE, n |-> n, d |-> d]

\* findHoleBridge, first loop (lines 384-397): the crossings of the ray from
\* the hole's point to the left.  x = p.x + (hy - p.y) * (p.next.x - p.x) /
\* (p.next.y - p.y) is the fraction xn / xd, xd = p.y - p.next.y > 0.
RECURSIVE bridgeRay(_, _, _, _, _, _)
bridgeRay(N, hole, outerNode, p, qx, m) ==
  LET hx == N[hole].x
      hy == N[hole].y
      pn == N[p].next
      xd == N[p].y - N[pn].y
      xn == N[p].x * xd + (N[p].y - hy) * (N[pn].x - N[p].x)
      take == /\ hy <= N[p].y /\ hy >= N[pn].y /\ N[pn].y # N[p].y
              /\ xn <= hx * xd
              /\ (qx.inf \/ xn * qx.d > qx.n * xd)
      qx1 == IF take THEN Frac(xn, xd) ELSE qx
      m1 == IF take THEN (IF N[p].x < N[pn].x THEN p ELSE pn) ELSE m
  IN IF take /\ xn = hx * xd /\ hy = N[p].y
     THEN [returned |-> TRUE, node |-> p, qx |-> qx1]
     ELSE IF take /\ xn = hx * xd /\ hy = N[pn].y
          THEN [returned |-> TRUE, node |-> pn, qx |-> qx1]
          ELSE IF pn # outerNode
               THEN bridgeRay(N, hole, outerNode, pn, qx1, m1)
               ELSE [returned |-> FALSE, node |-> m1, qx |-> qx1]

\* findHoleBridge, second loop (lines 415-435).  The triangle of the hole's
\* point, the crossing (qx, hy) and m is tested with every coordinate
\* multiplied by qx.d; tan = |hy - p.y| / (hx - p.x) is the fraction tn / td,
\* and tanMin is tanMin.n / tanMin.d or, with tanMin.inf, Infinity.
RECURSIVE bridgePick(_, _, _, _, _, _, _, _, _)
bridgePick(N, hole, qx, mx, my, stop, p, m, tanMin) ==
  LET hx == N[hole].x
      hy == N[hole].y
      s == qx.d
      inTri == pointInTriangle(IF hy < my THEN hx * s ELSE qx.n, hy * s,
                               mx * s, my * s,
                               IF hy < my THEN qx.n ELSE hx * s, hy * s,
                               N[p].x * s, N[p].y * s)
      cand == hx >= N[p].x /\ N[p].x >= mx /\ hx # N[p].x /\ inTri
      tn == Abs(hy - N[p].y)
      td == hx - N[p].x
      less == tanMin.inf \/ tn * tanMin.d < tanMin.n * td
      same == ~tanMin.inf /\ tn * tanMin.d = tanMin.n * td
      better == /\ cand
                /\ locallyInside(N, p, hole)
                /\ \/ less
                   \/ /\ same
                      /\ \/ N[p].x > N[m].x
                         \/ (N[p].x = N[m].x /\ sectorContainsSector(N, m, p))
      m1 == IF better THEN p ELSE m
      tanMin1 == IF better THEN Frac(tn, td) ELSE tanMin
      pn == N[p].next
  IN IF pn # stop THEN bridgePick(N, hole, qx, mx, my, stop, pn, m1, tanMin1)
     ELSE m1

\* findHoleBridge(hole, outerNode): the bridge node, or Null
findHoleBridge(N, hole, outerNode) ==
  LET r == bridgeRay(N, hole, outerNode, outerNode, MinusInfinity, Null)
      m == r.node
  IN IF r.returned THEN r.node
     ELSE IF m = Null THEN Null
          ELSE IF N[hole].x * r.qx.d = r.qx.n THEN m
               ELSE bridgePick(N, hole, r.qx, N[m].x, N[m].y, m, m, m,
                               [inf |-> TRUE, n |-> 1, d |-> 1])

\* a faulty eliminateHole: no hole is ever bridged
eliminateHoleNever(N, hole, outerNode) == N

\* a faulty eliminateHole: without a bridge, the hole is tied to outerNode
eliminateHoleForced(N, hole, outerNode) ==
  LET found == findHoleBridge(N, hole, outerNode)
      bridge == IF found = Null THEN outerNode ELSE found
      sp == splitPolygon(N, bridge, hole)
      b == sp.node
      f1 == filterPoints(sp.nodes, bridge, sp.nodes[bridge].next)
      f2 == filterPoints(f1.nodes, b, f1.nodes[b].next)
  IN f2.nodes

\* eliminateHole(hole, outerNode): the arena afterwards
eliminateHole(N, hole, outerNode) ==
  LET bridge == findHoleBridge(N, hole, outerNode)
  IN IF bridge = Null THEN N
     ELSE LET sp == splitPolygon(N, bridge, hole)
              b == sp.node
              f1 == filterPoints(sp.nodes, bridge, sp.nodes[bridge].next)
              f2 == filterPoints(f1.nodes, b, f1.nodes[b].next)
          IN f2.nodes

\* eliminateHoles, first loop (lines 339-345): one ring per hole span and the
\* queue of their leftmost nodes
RECURSIVE holeRings(_, _, _, _, _, _, _)
holeRings(N, data, holeIndices, dim, areas, i, queue) ==
  LET len == Len(holeIndices)
  IN IF i >= len THEN [nodes |-> N, queue |-> queue]
     ELSE LET start == holeIndices[i + 1] * dim
              end == IF i < len - 1 THEN holeIndices[i + 2] * dim ELSE Len(data)
              r == linkedList(N, data, start, end, dim, FALSE,
                              IF areas.given /\ i + 1 < Len(areas.values)
                              THEN << areas.values[i + 2] >> ELSE Undefined)
              list == r.node
              N1 == IF list = r.nodes[list].next
                    THEN [r.nodes EXCEPT ![list].steiner = TRUE]
                    ELSE r.nodes
          IN holeRings(N1, data, holeIndices, dim, areas, i + 1,
                       Append(queue, getLeftmost(N1, list)))

-----------------------------------------------------------------------------
(* One call of earcut as a state machine.                                  *)
(*                                                                         *)
(* An input is [positions, holeIndices, dim, areas]; areas is              *)
(* [given |-> FALSE, values |-> <<>>] when the argument is omitted.  The   *)
(* machine state is [pc, nodes, triangles, stack, outerNode, queue, qi].   *)
(* earcutLinked calls itself only as its last statement and splitEarcut    *)
(* calls it twice and returns, so the pending calls are a stack of frames  *)
(* [ear, stop, pass], the running call on top (the head).                  *)

\* areas && areas[k]
areaArg(areas, k) ==
  IF areas.given /\ k < Len(areas.values) THEN << areas.values[k + 1] >>
  ELSE Undefined

\* a call earcutLinked(ear, ..., pass) put on the pending calls `rest`
\* (line 135: nothing to do without a node; line 140: stop = ear)
enter(ear, pass, rest) ==
  IF ear = Null THEN rest
  ELSE << [ear |-> ear, stop |-> ear, pass |-> pass] >> \o rest

\* where the machine is once the pending calls are `stack`
pcOf(stack) == IF stack = << >> THEN "done" ELSE "clip"

\* a faulty start: only a missing outer ring returns early
earcutStartUnguarded(inp) ==
  LET hasHoles == Len(inp.holeIndices) > 0
      outerLen == IF hasHoles THEN inp.holeIndices[1] * inp.dim
                  ELSE Len(inp.positions)
      r == linkedList(<< >>, inp.positions, 0, outerLen, inp.dim, TRUE,
                      areaArg(inp.areas, 0))
      outer == r.node
      empty == outer = Null
      stack == IF empty \/ hasHoles THEN << >> ELSE enter(outer, 0, << >>)
  IN [pc |-> IF empty THEN "done" ELSE IF hasHoles THEN "holes" ELSE "clip",
      nodes |-> r.nodes, triangles |-> << >>, stack |-> stack,
      outerNode |-> outer, queue |-> << >>, qi |-> 0]

\* earcut, lines 44-49 and 59: the outer ring, the early return
earcutStart(inp) ==
  LET hasHoles == Len(inp.holeIndices) > 0
      outerLen == IF hasHoles THEN inp.holeIndices[1] * inp.dim
                  ELSE Len(inp.positions)
      r == linkedList(<< >>, inp.positions, 0, outerLen, inp.dim, TRUE,
                      areaArg(inp.areas, 0))
      outer == r.node
      empty == outer = Null \/ r.nodes[outer].next = r.nodes[outer].prev
      stack == IF empty \/ hasHoles THEN << >> ELSE enter(outer, 0, << >>)
  IN [pc |-> IF empty THEN "done" ELSE IF hasHoles THEN "holes" ELSE "clip",
      nodes |-> r.nodes, triangles |-> << >>, stack |-> stack,
      outerNode |-> outer, queue |-> << >>, qi |-> 0]

\* eliminateHoles, lines 339-347: the hole rings and the sorted queue
buildQueue(inp, s) ==
  LET r == holeRings(s.nodes, inp.positions, inp.holeIndices, inp.dim,
                     inp.areas, 0, << >>)
  IN [s EXCEPT !.pc = "hole", !.nodes = r.nodes,
               !.queue = sortByX(r.nodes, r.queue), !.qi = 1]

\* eliminateHoles, line 351: eliminateHole(queue[i], outerNode)
bridgeHole(s) ==
  [s EXCEPT !.pc = "filter",
            !.nodes = eliminateHole(s.nodes, s.queue[s.qi], s.outerNode)]

\* eliminateHoles, line 352 and the loop's step; after the last hole
\* earcut goes on to earcutLinked(outerNode, ...) (line 80)
filterOuter(s) ==
  LET f == filterPoints(s.nodes, s.outerNode, s.nodes[s.outerNode].next)
      last == s.qi = Len(s.queue)
  IN [s EXCEPT !.nodes = f.nodes, !.outerNode = f.node, !.qi = s.qi + 1,
               !.pc = IF last THEN pcOf(enter(f.node, 0, << >>)) ELSE "hole",
               !.stack = IF last THEN enter(f.node, 0, << >>) ELSE << >>]

\* earcutLinked's loop condition fails (line 145): the call returns
ringDone(N, f) == N[f.ear].prev = N[f.ear].next

\* the sweep came back to stop without an ear (lines 164-167)
stalled(N, f) ==
  ~ringDone(N, f) /\ ~isEar(N, f.ear) /\ N[f.ear].next = f.stop

returnCall(s) ==
  [s EXCEPT !.stack = Tail(s.stack), !.pc = pcOf(Tail(s.stack))]

\* a faulty clip: the triangle is emitted and the ear stays in the ring
clipEarKept(inp, s) ==
  LET f == Head(s.stack)
      N == s.nodes
      prev == N[f.ear].prev
      next == N[f.ear].next
      nn == N[next].next
  IN [s EXCEPT !.triangles = s.triangles \o << N[prev].i \div inp.dim,
                                               N[f.ear].i \div inp.dim,
                                               N[next].i \div inp.dim >>,
               !.stack = << [f EXCEPT !.ear = nn, !.stop = nn] >> \o Tail(s.stack)]

\* lines 149-161: cut off the ear
clipEar(inp, s) ==
  LET f == Head(s.stack)
      N == s.nodes
      prev == N[f.ear].prev
      next == N[f.ear].next
      N1 == removeNode(N, f.ear)
      nn == N1[next].next
  IN [s EXCEPT !.triangles = s.triangles \o << N[prev].i \div inp.dim,
                                               N[f.ear].i \div inp.dim,
                                               N[next].i \div inp.dim >>,
               !.nodes = N1,
               !.stack = << [f EXCEPT !.ear = nn, !.stop = nn] >> \o Tail(s.stack)]

\* line 164: ear = next, the sweep goes on
nextEar(s) ==
  LET f == Head(s.stack)
  IN [s EXCEPT !.stack = << [f EXCEPT !.ear = s.nodes[f.ear].next] >>
                         \o Tail(s.stack)]

\* a faulty retry: after the filter, pass 2 at once
filterAndSkip(s) ==
  LET f == Head(s.stack)
      r == filterPoints(s.nodes, s.nodes[f.ear].next, Null)
      st == enter(r.node, 2, Tail(s.stack))
  IN [s EXCEPT !.nodes = r.nodes, !.stack = st, !.pc = pcOf(st)]

\* lines 169-170: filter, then pass 1
filterAndRetry(s) ==
  LET f == Head(s.stack)
      r == filterPoints(s.nodes, s.nodes[f.ear].next, Null)
      st == enter(r.node, 1, Tail(s.stack))
  IN [s EXCEPT !.nodes = r.nodes, !.stack = st, !.pc = pcOf(st)]

\* lines 173-175: filter, cure the local intersections, then pass 2
cureAndRetry(inp, s) ==
  LET f == Head(s.stack)
      r == filterPoints(s.nodes, s.nodes[f.ear].next, Null)
      c == cureLocalIntersections(r.nodes, s.triangles, r.node, inp.dim)
      st == enter(c.node, 2, Tail(s.stack))
  IN [s EXCEPT !.nodes = c.nodes, !.triangles = c.triangles,
               !.stack = st, !.pc = pcOf(st)]

\* lines 178-179 with splitEarcut: the two halves, each from pass 0, the
\* half of a first; without a valid diagonal the ring is given up
splitEarcut(s) ==
  LET f == Head(s.stack)
      start == s.nodes[f.ear].next
      ab == findDiagonal(s.nodes, start)
  IN IF ab = << >> THEN returnCall(s)
     ELSE LET sp == splitPolygon(s.nodes, ab[1], ab[2])
              fa == filterPoints(sp.nodes, ab[1], sp.nodes[ab[1]].next)
              fc == filterPoints(fa.nodes, sp.node, fa.nodes[sp.node].next)
              st == enter(fa.node, 0, enter(fc.node, 0, Tail(s.stack)))
          IN [s EXCEPT !.nodes = fc.nodes, !.stack = st, !.pc = pcOf(st)]

-----------------------------------------------------------------------------
(* The whole call as a function of the input: the steps above, in the      *)
(* order the code takes them.                                              *)

step(inp, s) ==
  IF s.pc = "start" THEN earcutStart(inp)
  ELSE IF s.pc = "holes" THEN buildQueue(inp, s)
  ELSE IF s.pc = "hole" THEN bridgeHole(s)
  ELSE IF s.pc = "filter" THEN filterOuter(s)
  ELSE LET f == Head(s.stack)
       IN IF ringDone(s.nodes, f) THEN returnCall(s)
          ELSE IF isEar(s.nodes, f.ear) THEN clipEar(inp, s)
          ELSE IF s.nodes[f.ear].next # f.stop THEN nextEar(s)
          ELSE IF f.pass = 0 THEN filterAndRetry(s)
          ELSE IF f.pass = 1 THEN cureAndRetry(inp, s)
          ELSE splitEarcut(s)

initial ==
  [pc |-> "start", nodes |-> << >>, triangles |-> << >>, stack |-> << >>,
   outerNode |-> Null, queue |-> << >>, qi |-> 0]

RECURSIVE run(_, _)
run(inp, s) == IF s.pc = "done" THEN s ELSE run(inp, step(inp, s))

\* earcut(positions, holeIndices, dim, areas): the returned triangles
earcut(inp) == run(inp, initial).triangles

-----------------------------------------------------------------------------
(* What the claims speak of: the input polygon and the returned triangles  *)
(* as geometry.  Points are << x, y >>.                                    *)

\* positions.length / dim
VertexCount(inp) == Len(inp.positions) \div inp.dim

\* the coordinates of vertex k (k counts from 0)
Vertex(inp, k) ==
  << inp.positions[k * inp.dim + 1], inp.positions[k * inp.dim + 2] >>

\* the vertex indices of ring r: r = 0 the outer ring, r >= 1 the r-th hole
RingStart(inp, r) == IF r = 0 THEN 0 ELSE inp.holeIndices[r]
RingEnd(inp, r) ==
  IF r < Len(inp.holeIndices) THEN inp.holeIndices[r + 1] ELSE VertexCount(inp)
RingSize(inp, r) == RingEnd(inp, r) - RingStart(inp, r)
\* the k-th point of ring r, cyclically
RingPoint(inp, r, k) == Vertex(inp, RingStart(inp, r) + (k % RingSize(inp, r)))

\* twice the signed area of triangle a b c, positive for a left turn
Orient(a, b, c) ==
  (b[1] - a[1]) * (c[2] - a[2]) - (b[2] - a[2]) * (c[1] - a[1])

\* c lies on the closed segment a b
OnClosedSegment(a, b, c) ==
  /\ Orient(a, b, c) = 0
  /\ Min(a[1], b[1]) <= c[1] /\ c[1] <= Max(a[1], b[1])
  /\ Min(a[2], b[2]) <= c[2] /\ c[2] <= Max(a[2], b[2])

\* the closed segments a b and c d have a point in common
SegmentsMeet(a, b, c, d) ==
  \/ /\ sign(Orient(a, b, c)) * sign(Orient(a, b, d)) < 0
     /\ sign(Orient(c, d, a)) * sign(Orient(c, d, b)) < 0
  \/ OnClosedSegment(a, b, c) \/ OnClosedSegment(a, b, d)
  \/ OnClosedSegment(c, d, a) \/ OnClosedSegment(c, d, b)

\* ring r is a simple polygon: at least 3 points, and two of its edges meet
\* only when they are neighbours, and then only in the vertex they share
RingSimple(inp, r) ==
  LET n == RingSize(inp, r)
      P(k) == RingPoint(inp, r, k)
  IN /\ n >= 3
     /\ \A i \in 0 .. n - 1 : \A j \in 0 .. n - 1 :
          i < j =>
            IF j = i + 1 \/ (i = 0 /\ j = n - 1)
            THEN LET a == IF j = i + 1 THEN i ELSE j
                 IN /\ P(a) # P(a + 1) /\ P(a + 1) # P(a + 2)
                    /\ ~OnClosedSegment(P(a), P(a + 1), P(a + 2))
                    /\ ~OnClosedSegment(P(a + 1), P(a + 2), P(a))
            ELSE ~SegmentsMeet(P(i), P(i + 1), P(j), P(j + 1))

\* p lies on the boundary of ring r
OnRing(inp, r, p) ==
  \E k \in 0 .. RingSize(inp, r) - 1 :
    OnClosedSegment(RingPoint(inp, r, k), RingPoint(inp, r, k + 1), p)

\* the edge a b crosses the horizontal ray from p to the right
RayCrosses(a, b, p) ==
  /\ (a[2] > p[2]) # (b[2] > p[2])
  /\ IF b[2] > a[2]
     THEN (p[1] - a[1]) * (b[2] - a[2]) < (b[1] - a[1]) * (p[2] - a[2])
     ELSE (p[1] - a[1]) * (b[2] - a[2]) > (b[1] - a[1]) * (p[2] - a[2])

\* p lies strictly inside the simple ring r
StrictlyInside(inp, r, p) ==
  /\ ~OnRing(inp, r, p)
  /\ Cardinality({ k \in 0 .. RingSize(inp, r) - 1 :
                   RayCrosses(RingPoint(inp, r, k), RingPoint(inp, r, k + 1), p) })
       % 2 = 1

\* the boundaries of rings q and r have no point in common
RingsApart(inp, q, r) ==
  \A i \in 0 .. RingSize(inp, q) - 1 : \A j \in 0 .. RingSize(inp, r) - 1 :
    ~SegmentsMeet(RingPoint(inp, q, i), RingPoint(inp, q, i + 1),
                  RingPoint(inp, r, j), RingPoint(inp, r, j + 1))

\* a simple polygon: a simple outer ring, simple holes strictly inside it,
\* the holes outside each other
SimplePolygon(inp) ==
  LET h == Len(inp.holeIndices)
  IN /\ \A r \in 0 .. h : RingSimple(inp, r)
     /\ \A r \in 1 .. h :
          /\ RingsApart(inp, 0, r)
          /\ StrictlyInside(inp, 0, RingPoint(inp, r, 0))
     /\ \A q \in 1 .. h : \A r \in 1 .. h :
          q # r => /\ RingsApart(inp, q, r)
                   /\ ~StrictlyInside(inp, q, RingPoint(inp, r, 0))

\* twice the unsigned area of ring r
RECURSIVE ShoelaceFrom(_, _, _)
ShoelaceFrom(inp, r, k) ==
  IF k >= RingSize(inp, r) THEN 0
  ELSE LET a == RingPoint(inp, r, k)
           b == RingPoint(inp, r, k + 1)
       IN a[1] * b[2] - b[1] * a[2] + ShoelaceFrom(inp, r, k + 1)

RingArea2(inp, r) == Abs(ShoelaceFrom(inp, r, 0))

RECURSIVE HolesArea2(_, _)
HolesArea2(inp, r) ==
  IF r = 0 THEN 0 ELSE RingArea2(inp, r) + HolesArea2(inp, r - 1)

\* twice the unsigned areas of the triangles of T, summed
RECURSIVE TrianglesArea2(_, _)
TrianglesArea2(inp, T) ==
  IF Len(T) < 3 THEN 0
  ELSE Abs(Orient(Vertex(inp, T[1]), Vertex(inp, T[2]), Vertex(inp, T[3])))
       + TrianglesArea2(inp, SubSeq(T, 4, Len(T)))

\* the triangles of T as sets of points
TriangleSet(inp, T) ==
  { { Vertex(inp, T[3 * k + 1]), Vertex(inp, T[3 * k + 2]), Vertex(inp, T[3 * k + 3]) } :
      k \in 0 .. (Len(T) \div 3) - 1 }

Range(f) == { f[k] : k \in DOMAIN f }

-----------------------------------------------------------------------------
(* Inputs *)

\* Bounds of the input families
MaxCoord == 2
MaxVerts == 3
MaxRot == 1
MaxShift == 2

NoAreas == [given |-> FALSE, values |-> << >>]

\* the flat positions of a vertex list, a third coordinate 0 when dim = 3
RECURSIVE flat(_, _)
flat(verts, dim) ==
  IF verts = << >> THEN << >>
  ELSE (IF dim = 3 THEN << Head(verts)[1], Head(verts)[2], 0 >> ELSE Head(verts))
       \o flat(Tail(verts), dim)

input(verts, holes, dim, areas) ==
  [positions |-> flat(verts, dim), holeIndices |-> holes, dim |-> dim,
   areas |-> areas]

\* what getPolygonSignedArea gives for the outer span and for each hole span
RECURSIVE spanAreas(_, _)
spanAreas(inp, r) ==
  IF r > Len(inp.holeIndices) THEN << >>
  ELSE << getPolygonSignedArea(inp.positions, RingStart(inp, r) * inp.dim,
                               RingEnd(inp, r) * inp.dim, inp.dim) >>
       \o spanAreas(inp, r + 1)

\* the input with the areas argument supplied: its first `count` entries
withAreas(inp, count) ==
  [inp EXCEPT !.areas = [given |-> TRUE,
                         values |-> SubSeq(spanAreas(inp, 0), 1, count)]]

\* the same input with and without areas, whole and cut short
areaVariants(inp) ==
  { inp } \cup { withAreas(inp, c) : c \in 0 .. Len(inp.holeIndices) + 1 }

RECURSIVE reverse(_)
reverse(sq) == IF sq = << >> THEN << >> ELSE reverse(Tail(sq)) \o << Head(sq) >>

rotate(verts, r) ==
  [k \in 1 .. Len(verts) |-> verts[((k - 1 + r) % Len(verts)) + 1]]

shift(verts, dx, dy) ==
  [k \in 1 .. Len(verts) |-> << verts[k][1] + dx, verts[k][2] + dy >>]

\* a ring as given, and in the other winding
windings(verts) == { verts, reverse(verts) }

\* a ring started at each of its first MaxRot + 1 vertices, in both windings
startsOf(verts) ==
  UNION { windings(rotate(verts, r)) : r \in 0 .. Min(MaxRot, Len(verts) - 1) }

Grid == (0 .. MaxCoord) \X (0 .. MaxCoord - 1)

\* every vertex list of at most MaxVerts grid points
GridRings == UNION { [1 .. n -> Grid] : n \in 0 .. MaxVerts }

\* the square of spec case 1, and its hole of case 2
Square10 == << <<0, 0>>, <<10, 0>>, <<10, 10>>, <<0, 10>> >>
Hole10 == << <<2, 2>>, <<8, 2>>, <<8, 8>>, <<2, 8>> >>

\* hole-free rings: simple ones (convex, with reflex and collinear vertices),
\* a ring touching itself in one point, one with a repeated point, and
\* self-crossing ones
Square == << <<0, 0>>, <<4, 0>>, <<4, 4>>, <<0, 4>> >>
Notched == << <<1, 0>>, <<4, 0>>, <<4, 4>>, <<0, 4>>, <<0, 2>>, <<1, 2>> >>
Diamond == << <<2, 0>>, <<4, 2>>, <<2, 4>>, <<0, 2>> >>
Arrow == << <<0, 0>>, <<2, 1>>, <<4, 0>>, <<2, 4>> >>
Comb == << <<0, 0>>, <<4, 0>>, <<4, 3>>, <<3, 1>>, <<2, 3>>, <<1, 1>>, <<0, 3>> >>
Midpoints == << <<0, 0>>, <<2, 0>>, <<4, 0>>, <<4, 4>>, <<2, 4>>, <<0, 4>> >>
Bowtie == << <<0, 0>>, <<2, 0>>, <<1, 1>>, <<2, 2>>, <<0, 2>>, <<1, 1>> >>
Closed == << <<0, 0>>, <<3, 0>>, <<3, 3>>, <<0, 0>> >>
Crossed == << <<0, 0>>, <<4, 4>>, <<4, 0>>, <<0, 3>> >>
Folded == << <<0, 0>>, <<0, 2>>, <<0, 1>>, <<1, 0>>, <<0, 1>> >>
Flat == << <<0, 0>>, <<0, 4>>, <<0, 1>>, <<0, 3>> >>
Spiked == << <<0, 1>>, <<1, 0>>, <<0, 1>>, <<0, 2>>, <<0, 0>> >>

OuterShapes == { Square, Notched, Diamond, Flat }
RingShapes ==
  OuterShapes
  \cup { Arrow, Comb, Midpoints, Bowtie, Closed, Crossed, Folded, Spiked }

\* hole rings, to be shifted: a point, a segment, triangles, a square
PointHole == << <<0, 0>> >>
WedgeHole == << <<0, 1>>, <<1, 0>>, <<1, 2>> >>
HoleShapes ==
  { PointHole,
    << <<0, 0>>, <<1, 0>> >>,
    << <<0, 0>>, <<1, 0>>, <<0, 1>> >>,
    WedgeHole,
    << <<0, 0>>, <<1, 0>>, <<1, 1>>, <<0, 1>> >> }

Shifts == (0 .. MaxShift) \X (0 .. MaxShift)

\* the hole shapes at every shift, as given and in both windings
placed(shapes) == { shift(h, d[1], d[2]) : h \in shapes, d \in Shifts }
PlacedHoles == UNION { windings(h) : h \in placed(HoleShapes) }

\* no holes: every small grid ring; every named ring from several starts in
\* both windings, with both strides and with areas supplied; an empty outer
\* span (the first hole starts at vertex 0)
HoleFree ==
  { input(v, << >>, 2, NoAreas) : v \in GridRings }
  \cup UNION { areaVariants(input(v, << >>, d, NoAreas)) :
               v \in UNION { startsOf(r) : r \in RingShapes }, d \in {2, 3} }
  \cup { input(Square, << 0 >>, 2, NoAreas) }

\* one hole: a placed hole in an outer ring, also beside it and across it;
\* outer spans of fewer than 3 points before the hole; spec case 2
OneHole ==
  { input(o \o h, << Len(o) >>, 2, NoAreas) :
      o \in UNION { startsOf(r) : r \in OuterShapes }, h \in PlacedHoles }
  \cup { input(SubSeq(Square, 1, n) \o Hole10, << n >>, 2, NoAreas) : n \in 1 .. 2 }
  \cup { input(<< <<0, 0>>, <<3, 3>>, <<0, 0>> >> \o WedgeHole, << 3 >>, 2, NoAreas) }
  \cup UNION { areaVariants(input(Square10 \o h, << 4 >>, d, NoAreas)) :
               h \in windings(Hole10), d \in {2, 3} }

\* two holes: any placed hole, then a point or a triangle shifted along the
\* diagonal; with areas
\* supplied, two holes in the large square
TwoHoles ==
  { input(o \o h \o g, << Len(o), Len(o) + Len(h) >>, 2, NoAreas) :
      o \in OuterShapes, h \in placed(HoleShapes),
      g \in { shift(w, d, d) : w \in { PointHole, WedgeHole }, d \in 0 .. MaxShift } }
  \cup UNION { areaVariants(input(Square10 \o shift(WedgeHole, 2, 2) \o h,
                                  << 4, 7 >>, 2, NoAreas)) :
               h \in windings(shift(WedgeHole, 6, 5)) }

Inputs == HoleFree \cup OneHole \cup TwoHoles

-----------------------------------------------------------------------------
VARIABLES positions, holeIndices, dim, areas,
          pc, nodes, triangles, stack, outerNode, queue, qi

inputVars == << positions, holeIndices, dim, areas >>
machineVars == << pc, nodes, triangles, stack, outerNode, queue, qi >>
vars == << positions, holeIndices, dim, areas,
           pc, nodes, triangles, stack, outerNode, queue, qi >>

Inp == [positions |-> positions, holeIndices |-> holeIndices, dim |-> dim,
        areas |-> areas]

Cur == [pc |-> pc, nodes |-> nodes, triangles |-> triangles, stack |-> stack,
        outerNode |-> outerNode, queue |-> queue, qi |-> qi]

Becomes(s) ==
  /\ pc' = s.pc
  /\ nodes' = s.nodes
  /\ triangles' = s.triangles
  /\ stack' = s.stack
  /\ outerNode' = s.outerNode
  /\ queue' = s.queue
  /\ qi' = s.qi
  /\ UNCHANGED inputVars

Init ==
  /\ \E inp \in Inputs :
       /\ positions = inp.positions
       /\ holeIndices = inp.holeIndices
       /\ dim = inp.dim
       /\ areas = inp.areas
  /\ pc = initial.pc
  /\ nodes = initial.nodes
  /\ triangles = initial.triangles
  /\ stack = initial.stack
  /\ outerNode = initial.outerNode
  /\ queue = initial.queue
  /\ qi = initial.qi

Start == pc = "start" /\ Becomes(earcutStart(Inp))

BuildQueue == pc = "holes" /\ Becomes(buildQueue(Inp, Cur))

BridgeHole == pc = "hole" /\ Becomes(bridgeHole(Cur))

FilterOuter == pc = "filter" /\ Becomes(filterOuter(Cur))

Return ==
  /\ pc = "clip"
  /\ ringDone(nodes, Head(stack))
  /\ Becomes(returnCall(Cur))

ClipEar ==
  /\ pc = "clip"
  /\ ~ringDone(nodes, Head(stack))
  /\ isEar(nodes, Head(stack).ear)
  /\ Becomes(clipEar(Inp, Cur))

NextEar ==
  /\ pc = "clip"
  /\ ~ringDone(nodes, Head(stack))
  /\ ~isEar(nodes, Head(stack).ear)
  /\ nodes[Head(stack).ear].next # Head(stack).stop
  /\ Becomes(nextEar(Cur))

FilterAndRetry ==
  /\ pc = "clip"
  /\ stalled(nodes, Head(stack))
  /\ Head(stack).pass = 0
  /\ Becomes(filterAndRetry(Cur))

CureAndRetry ==
  /\ pc = "clip"
  /\ stalled(nodes, Head(stack))
  /\ Head(stack).pass = 1
  /\ Becomes(cureAndRetry(Inp, Cur))

SplitEarcut ==
  /\ pc = "clip"
  /\ stalled(nodes, Head(stack))
  /\ Head(stack).pass = 2
  /\ Becomes(splitEarcut(Cur))

Next ==
  \/ Start
  \/ BuildQueue
  \/ BridgeHole
  \/ FilterOuter
  \/ Return
  \/ ClipEar
  \/ NextEar
  \/ FilterAndRetry
  \/ CureAndRetry
  \/ SplitEarcut

Spec == Init /\ [][Next]_vars

-----------------------------------------------------------------------------
(* Rings of the arena, as the claims speak of them *)

\* the nodes met from h by following next
RECURSIVE RingFrom(_, _, _)
RingFrom(N, seen, p) ==
  IF p \in seen THEN seen ELSE RingFrom(N, seen \cup {p}, N[p].next)

RingNodes(N, h) == RingFrom(N, {}, h)

NodeCount(N, h) == Cardinality(RingNodes(N, h))

\* p.next.prev = p = p.prev.next
Linked(N, p) == N[N[p].next].prev = p /\ N[N[p].prev].next = p

\* every node met from h is linked both ways: next is then one-to-one on
\* the ring, so following it returns to h, and prev runs the ring backwards
Circular(N, h) == \A p \in RingNodes(N, h) : Linked(N, p)

\* the ring handles the code holds in the current state
Handles ==
  IF pc \in {"holes", "hole", "filter"} THEN { outerNode }
  ELSE IF pc = "clip"
       THEN UNION { { stack[k].ear, stack[k].stop } : k \in 1 .. Len(stack) }
       ELSE {}

\* no node of the ring of h is an ear
NoEars(N, h) == \A p \in RingNodes(N, h) : ~isEar(N, p)

\* filterPoints would remove nothing from the ring of h
Filtered(N, h) ==
  \/ N[h].next = h
  \/ \A p \in RingNodes(N, h) :
       \/ N[p].steiner
       \/ (~equals(N, p, N[p].next) /\ area(N, N[p].prev, p, N[p].next) # 0)

\* the next-steps from ear that bring the sweep of a call back to stop
RECURSIVE HopsFrom(_, _, _, _)
HopsFrom(N, p, stop, k) ==
  IF N[p].next = stop \/ k >= Len(N) THEN k
  ELSE HopsFrom(N, N[p].next, stop, k + 1)

Hops(N, f) == HopsFrom(N, f.ear, f.stop, 1)

\* the steps a ring of n nodes can cost before its pass-0 sweep begins:
\* more than two rings of n - 1 nodes can cost from their start
RECURSIVE Cost(_)
Cost(n) == IF n <= 2 THEN 0 ELSE 2 * Cost(n - 1) + 6 * n

\* what is left of a call: the size of its ring, then the passes it has
\* not tried, then the nodes its sweep has not visited
CallRank(N, f) ==
  LET n == NodeCount(N, f.ear)
  IN Cost(n) + (2 - f.pass) * (n + 1) + Hops(N, f) + 1

RECURSIVE StackRank(_, _)
StackRank(N, st) ==
  IF st = << >> THEN 0 ELSE CallRank(N, Head(st)) + StackRank(N, Tail(st))

\* the phase of the call, then the work left in the phase
Rank ==
  IF pc = "start" THEN << 4, 0 >>
  ELSE IF pc = "holes" THEN << 3, 0 >>
  ELSE IF pc = "hole" THEN << 2, 2 * (Len(queue) - qi) + 1 >>
  ELSE IF pc = "filter" THEN << 2, 2 * (Len(queue) - qi) >>
  ELSE IF pc = "clip" THEN << 1, StackRank(nodes, stack) >>
  ELSE << 0, 0 >>

\* the guard of some action holds
CanStep ==
  \/ pc \in {"start", "holes", "hole", "filter"}
  \/ /\ pc = "clip"
     /\ stack # << >>
     /\ \/ ringDone(nodes, Head(stack))
        \/ isEar(nodes, Head(stack).ear)
        \/ nodes[Head(stack).ear].next # Head(stack).stop
        \/ (stalled(nodes, Head(stack)) /\ Head(stack).pass \in 0 .. 2)

\* the number of vertices of the outer span, and of nodes its ring keeps
\* once a closing duplicate of the first point is dropped
OuterLen == IF Len(holeIndices) > 0 THEN holeIndices[1] ELSE VertexCount(Inp)
OuterNodes ==
  IF OuterLen >= 2 /\ Vertex(Inp, 0) = Vertex(Inp, OuterLen - 1)
  THEN OuterLen - 1 ELSE OuterLen

\* the outer ring as linkedList builds it, and after filterPoints
OuterRing ==
  linkedList(<< >>, positions, 0, OuterLen * dim, dim, TRUE, areaArg(areas, 0))
OuterCollapses ==
  LET f == filterPoints(OuterRing.nodes, OuterRing.node, Null)
  IN OuterRing.node = Null \/ f.nodes[f.node].next = f.nodes[f.node].prev

\* the input with its vertices in reversed order, areas omitted
Reversed(inp) ==
  input(reverse([k \in 1 .. VertexCount(inp) |-> Vertex(inp, k - 1)]),
        << >>, inp.dim, NoAreas)

SignedArea == getPolygonSignedArea(positions, 0, Len(positions), dim)

-----------------------------------------------------------------------------
(* The claims *)

C2_TriangleCount ==
  (pc = "done" /\ holeIndices = << >> /\ RingSimple(Inp, 0)) =>
    /\ Len(triangles) = 3 * (VertexCount(Inp) - 2)
    /\ Range(triangles) = 0 .. VertexCount(Inp) - 1

C2_Witness ==
  /\ pc = "done"
  /\ holeIndices = << >>
  /\ RingSimple(Inp, 0)
  /\ VertexCount(Inp) = 7
  /\ SignedArea > 0
  /\ Len(triangles) = 15

\* C3: at every point of a call the triangles emitted so far are whole
\* (a multiple of 3 indices), every index is a vertex index of the input,
\* and every node, also one that a bridge or a split duplicated, carries
\* the offset and the coordinates of one input vertex.
C3_IndicesInRange ==
  /\ Len(triangles) % 3 = 0
  /\ \A k \in 1 .. Len(triangles) : triangles[k] \in 0 .. VertexCount(Inp) - 1
  /\ \A p \in 1 .. Len(nodes) :
       /\ nodes[p].i % dim = 0
       /\ nodes[p].i \div dim \in 0 .. VertexCount(Inp) - 1
       /\ << nodes[p].x, nodes[p].y >> = Vertex(Inp, nodes[p].i \div dim)

C3_Witness ==
  /\ pc = "done"
  /\ dim = 3
  /\ Len(holeIndices) > 0
  /\ Len(nodes) > VertexCount(Inp)
  /\ Len(triangles) > 0

\* C4: every call ends: a call that has not returned can take a step, and
\* every step lowers a rank that cannot fall for ever.  The rank falls
\* because an ear clip takes one node off the ring, the local-intersection
\* cure takes two nodes off per triangle it emits, a split leaves two
\* rings each smaller than the ring split, and no other step of the engine
\* lets the running ring grow.
C4_Terminates ==
  /\ [](pc # "done" => CanStep)
  /\ [](Rank[1] >= 0 /\ Rank[2] >= 0)
  /\ [][ LET before == Rank
             after == Rank'
         IN \/ after[1] < before[1]
            \/ (after[1] = before[1] /\ after[2] < before[2]) ]_vars
  /\ [][ (pc = "clip" /\ ~ringDone(nodes, Head(stack))) =>
         LET f == Head(stack)
             n == NodeCount(nodes, f.ear)
         IN IF isEar(nodes, f.ear)
            THEN NodeCount(nodes', Head(stack').ear) = n - 1
            ELSE IF Len(stack') > Len(stack)
                 THEN /\ NodeCount(nodes', stack'[1].ear) < n
                      /\ NodeCount(nodes', stack'[2].ear) < n
                 ELSE IF Len(stack') = Len(stack)
                      THEN NodeCount(nodes', Head(stack').ear)
                             <= n - 2 * ((Len(triangles') - Len(triangles)) \div 3)
                      ELSE TRUE ]_vars

C4_Witness ==
  /\ pc = "done"
  /\ holeIndices = << >>
  /\ Len(nodes) > VertexCount(Inp)
  /\ Len(triangles) > 0

\* C5 as claimed: earcut returns nothing, and builds no hole ring, when the
\* outer ring has fewer than 3 nodes once a closing duplicate is dropped;
\* and it returns nothing when the outer ring collapses to fewer than 3
\* nodes under filterPoints.
C5_DegenerateEmpty ==
  pc = "done" =>
    /\ OuterNodes < 3 =>
         triangles = << >> /\ queue = << >> /\ Len(nodes) = OuterLen
    /\ OuterCollapses => triangles = << >>

\* C5 as amended: the second part holds for an input without holes whose
\* outer ring has no ear.
C5_DegenerateEmptyNoEar ==
  pc = "done" =>
    /\ OuterNodes < 3 =>
         triangles = << >> /\ queue = << >> /\ Len(nodes) = OuterLen
    /\ ( /\ holeIndices = << >>
         /\ OuterCollapses
         /\ OuterRing.node # Null
         /\ NoEars(OuterRing.nodes, OuterRing.node) ) =>
         triangles = << >>

C5_Witness ==
  /\ pc = "done"
  /\ Len(holeIndices) > 0
  /\ OuterLen = 3
  /\ OuterNodes < 3
  /\ triangles = << >>

\* C6: when findHoleBridge finds no bridge, eliminateHole changes no node,
\* and the loop of eliminateHoles goes on to its filterPoints and to the
\* next hole of the queue, or past the last hole to the ear clipping.
C6_HoleSkipped ==
  /\ [][ (pc = "hole" /\ findHoleBridge(nodes, queue[qi], outerNode) = Null) =>
           /\ nodes' = nodes
           /\ outerNode' = outerNode
           /\ << queue', qi' >> = << queue, qi >>
           /\ pc' = "filter" ]_vars
  /\ [][ pc = "filter" =>
           /\ << queue', qi' >> = << queue, qi + 1 >>
           /\ pc' = IF qi < Len(queue) THEN "hole" ELSE "clip" ]_vars

C6_Witness ==
  /\ pc = "hole"
  /\ qi = 2
  /\ Len(nodes) = VertexCount(Inp)
  /\ findHoleBridge(nodes, queue[qi], outerNode) # Null

\* C7 as claimed: without holes, the input in reversed vertex order gives
\* the same set of triangles, compared as sets of three points.
C7_ReversalInvariant ==
  (pc = "done" /\ holeIndices = << >>) =>
    TriangleSet(Inp, triangles)
      = TriangleSet(Reversed(Inp), earcut(Reversed(Inp)))

\* C7 as amended: it does when the signed area of the ring is not zero.
C7_ReversalInvariantNonZero ==
  (pc = "done" /\ holeIndices = << >> /\ SignedArea # 0) =>
    TriangleSet(Inp, triangles)
      = TriangleSet(Reversed(Inp), earcut(Reversed(Inp)))

C7_Witness ==
  /\ pc = "done"
  /\ holeIndices = << >>
  /\ SignedArea > 0
  /\ VertexCount(Inp) = 7
  /\ Len(triangles) = 15
  /\ TriangleSet(Inp, triangles)
       = TriangleSet(Reversed(Inp), earcut(Reversed(Inp)))

\* C8: with areas supplied that equal what getPolygonSignedArea computes
\* for the spans they stand for (all of them, only the first ones, or
\* none), earcut returns the sequence it returns with areas omitted.
C8_AreasEquivalent ==
  ( /\ pc = "done"
    /\ areas.given
    /\ areas.values = SubSeq(spanAreas(Inp, 0), 1, Len(areas.values)) ) =>
    triangles = earcut([Inp EXCEPT !.areas = NoAreas])

C8_Witness ==
  /\ pc = "done"
  /\ areas.given
  /\ Len(holeIndices) = 2
  /\ Len(areas.values) = 2
  /\ areas.values[2] # 0
  /\ Len(triangles) > 0
  /\ triangles = earcut([Inp EXCEPT !.areas = NoAreas])

\* C9: the running call changes pass only on a stalled sweep, one that
\* came back to stop with no node of the ring an ear, and then goes from
\* pass 0 to pass 1 with the ring filtered, from pass 1 to pass 2, and
\* from pass 2 to splitEarcut, which gives the ring up or leaves two calls
\* at pass 0; the calls waiting below the running one are at pass 0.
C9_PassOrder ==
  /\ [](pc = "clip" => \A k \in 2 .. Len(stack) : stack[k].pass = 0)
  /\ [][ pc = "clip" =>
         LET f == Head(stack)
             g == Head(stack')
         IN /\ ringDone(nodes, f) => stack' = Tail(stack)
            /\ (~ringDone(nodes, f) /\ ~stalled(nodes, f)) =>
                 /\ Len(stack') = Len(stack)
                 /\ g.pass = f.pass
                 /\ Tail(stack') = Tail(stack)
            /\ stalled(nodes, f) =>
                 /\ NoEars(nodes, f.ear)
                 /\ f.pass = 0 =>
                      /\ Len(stack') = Len(stack)
                      /\ g.pass = 1 /\ g.ear = g.stop
                      /\ Filtered(nodes', g.ear)
                      /\ triangles' = triangles
                 /\ f.pass = 1 =>
                      /\ Len(stack') = Len(stack)
                      /\ g.pass = 2 /\ g.ear = g.stop
                 /\ f.pass = 2 =>
                      \/ stack' = Tail(stack)
                      \/ /\ Len(stack') = Len(stack) + 1
                         /\ stack'[1].pass = 0 /\ stack'[2].pass = 0
                         /\ Tail(Tail(stack')) = Tail(stack)
                         /\ triangles' = triangles ]_vars

C9_Witness ==
  /\ pc = "clip"
  /\ Len(stack) = 2
  /\ Head(stack).pass = 2
  /\ stack[2].pass = 0

\* C10: every ring handle the code holds (outerNode while the holes are
\* merged, ear and stop of every pending call) is a node linked into its
\* ring, and every node of that ring has p.next.prev = p = p.prev.next.
C10_RingCircular == \A h \in Handles : Circular(nodes, h)

-----------------------------------------------------------------------------
(* The ear test and the Ring Builder, as the claims speak of them *)

\* the point of a node
Point(N, p) == << N[p].x, N[p].y >>

\* the turn at p: positive convex, zero collinear, negative reflex
Turn(N, p) == Orient(Point(N, N[p].prev), Point(N, p), Point(N, N[p].next))

\* the ring nodes that are not a corner of the candidate triangle at ear
Others(N, ear) == RingNodes(N, ear) \ { N[ear].prev, ear, N[ear].next }

\* q lies in the triangle at ear, its edges and corners included
InTriangle(N, ear, q) ==
  LET a == Point(N, N[ear].prev)
      b == Point(N, ear)
      c == Point(N, N[ear].next)
  IN /\ Orient(a, b, Point(N, q)) >= 0
     /\ Orient(b, c, Point(N, q)) >= 0
     /\ Orient(c, a, Point(N, q)) >= 0

\* q lies in the triangle at ear and on none of its edges
StrictlyInTriangle(N, ear, q) ==
  LET a == Point(N, N[ear].prev)
      b == Point(N, ear)
      c == Point(N, N[ear].next)
  IN /\ Orient(a, b, Point(N, q)) > 0
     /\ Orient(b, c, Point(N, q)) > 0
     /\ Orient(c, a, Point(N, q)) > 0

\* the nodes isEar can be asked about: those of the ring of the running call
Candidates ==
  IF pc = "clip" /\ ~ringDone(nodes, Head(stack))
  THEN RingNodes(nodes, Head(stack).ear) ELSE {}

\* C11 as claimed: isEar(ear) is true exactly when the turn at ear is
\* convex and no other node of the ring lies strictly inside the triangle
\* (ear.prev, ear, ear.next) while itself being non-reflex.
C11_EarIffStrict ==
  \A e \in Candidates :
    isEar(nodes, e) <=>
      /\ Turn(nodes, e) > 0
      /\ ~ \E q \in Others(nodes, e) :
             StrictlyInTriangle(nodes, e, q) /\ Turn(nodes, q) >= 0

\* C11 as amended: isEar(ear) is true exactly when the turn at ear is
\* convex and no other node of the ring lies in the triangle, its edges
\* and corners included, while itself being reflex or collinear.
C11_EarIffClosed ==
  \A e \in Candidates :
    isEar(nodes, e) <=>
      /\ Turn(nodes, e) > 0
      /\ ~ \E q \in Others(nodes, e) :
             InTriangle(nodes, e, q) /\ Turn(nodes, q) <= 0

\* a convex node that is no ear only because of a reflex or collinear node
\* on the edge of its triangle
C11_Witness ==
  \E e \in Candidates :
    /\ Turn(nodes, e) > 0
    /\ ~isEar(nodes, e)
    /\ \E q \in Others(nodes, e) : InTriangle(nodes, e, q) /\ Turn(nodes, q) <= 0
    /\ \A q \in Others(nodes, e) : ~StrictlyInTriangle(nodes, e, q)

\* no node of the ring of h has the coordinates of the node after it
NoCoincident(N, h) ==
  \A p \in RingNodes(N, h) : N[p].next # p => ~equals(N, p, N[p].next)

\* in span r of the input no vertex has the coordinates of the vertex
\* after it (the last and the first are not compared)
SpanDistinct(inp, r) ==
  \A k \in RingStart(inp, r) .. RingEnd(inp, r) - 2 :
    Vertex(inp, k) # Vertex(inp, k + 1)

\* the span a vertex index lies in
SpanOf(inp, k) ==
  CHOOSE r \in 0 .. Len(inp.holeIndices) :
    RingStart(inp, r) <= k /\ k < RingEnd(inp, r)

\* the span a node was built from
SpanOfNode(N, p) == SpanOf(Inp, N[p].i \div dim)

\* C12 as claimed: the ring linkedList returns, for the outer span at the
\* start and for every hole span when the queue is built, has no node with
\* the coordinates of the node after it.
C12_NoCoincidentNodes ==
  [][ /\ (pc = "start" /\ outerNode' # Null) => NoCoincident(nodes', outerNode')
      /\ pc = "holes" =>
           \A k \in 1 .. Len(queue') : NoCoincident(nodes', queue'[k]) ]_vars

\* C12 as amended: it has none when no vertex of the span has the
\* coordinates of the vertex after it; the last vertex may repeat the first.
C12_NoCoincidentNodesDistinct ==
  [][ /\ (pc = "start" /\ outerNode' # Null /\ SpanDistinct(Inp, 0)) =>
           NoCoincident(nodes', outerNode')
      /\ pc = "holes" =>
           \A k \in 1 .. Len(queue') :
             SpanDistinct(Inp, SpanOfNode(nodes', queue'[k])) =>
               NoCoincident(nodes', queue'[k]) ]_vars

\* an outer ring just built from a span whose last vertex repeats the first
C12_Witness ==
  /\ pc = "clip"
  /\ holeIndices = << >>
  /\ triangles = << >>
  /\ VertexCount(Inp) >= 4
  /\ Vertex(Inp, 0) = Vertex(Inp, VertexCount(Inp) - 1)
  /\ SpanDistinct(Inp, 0)
  /\ NodeCount(nodes, outerNode) = VertexCount(Inp) - 1
  /\ NoCoincident(nodes, outerNode)

=============================================================================
